---- MODULE Spec2Model ----
(***************************************************************************)
(* A model of the Dali nginx module (hawkinsw/dali): the four variants of  *)
(* the response generator (synchronous zero-source, asynchronous           *)
(* zero-source, instrumented, pattern-fill), their configuration merge and *)
(* their request handlers.                                                 *)
(***************************************************************************)
EXTENDS Integers, Naturals, Sequences, FiniteSets, TLC

VARIABLES variant, created, raw, conf, handler, merged, req, open_fds,
          response_contents

vars == <<variant, created, raw, conf, handler, merged, req, open_fds,
          response_contents>>

-----------------------------------------------------------------------------
(* Bounds of the model.                                                    *)

\* Number of nested location scopes below the server scope.
MaxLocations == 2

\* Width of size_t in the model, in bits (the build has 64).
SizeBits == 26

-----------------------------------------------------------------------------
(* Constants of the program and of the nginx interface it uses.            *)

RESPONSE_MULTIPLE == 4096

NGX_OK == 0

NGX_ERROR == -1

NGX_AGAIN == -2

NGX_HTTP_OK == 200

NGX_HTTP_BAD_REQUEST == 400

NGX_HTTP_INTERNAL_SERVER_ERROR == 500

\* size_t arithmetic wraps modulo 2^SizeBits.
SizeMod == 2 ^ SizeBits

\* NGX_CONF_UNSET_SIZE is (size_t) -1.
NGX_CONF_UNSET_SIZE == SizeMod - 1

\* The module that is built: each variant is one version of the module.
Variants == {"sync", "async", "instr", "pattern"}

\* Scope 0 is the http-level location configuration, scope 1 the server-level
\* one, scopes 2.. are nested location blocks; the parent of scope s is s - 1.
Scopes == 0 .. (MaxLocations + 1)

Locations == 2 .. (MaxLocations + 1)

\* The values the "dali" directive is given in the configurations explored.
LengthValues == {0, 1, RESPONSE_MULTIPLE, 10000}

-----------------------------------------------------------------------------
(* Configuration: create, enable, merge.                                   *)

\* ngx_http_dali_create_conf: conf->length = NGX_CONF_UNSET_SIZE.
CreateLength == NGX_CONF_UNSET_SIZE

\* A conversion that rounds down instead of up.
PatternCountBroken(conf_len) == conf_len \div RESPONSE_MULTIPLE

\* The unit conversion at the head of the pattern-fill merge (bytes to
\* buffers), in size_t arithmetic.
PatternCount(conf_len) ==
    ((IF conf_len % RESPONSE_MULTIPLE # 0 THEN 1 ELSE 0)
        + (conf_len \div RESPONSE_MULTIPLE)) % SizeMod

\* The rule without its prev->length > 0 guard.
InheritSmallerBroken(prev_length, conf_length) ==
    IF prev_length < conf_length THEN prev_length ELSE conf_length

\* A merge that never inherits.
InheritNothing(prev_length, conf_length) ==
    conf_length

\* The "inherit the smaller size" rule shared by every variant.
InheritSmaller(prev_length, conf_length) ==
    IF prev_length > 0 /\ prev_length < conf_length
    THEN prev_length
    ELSE conf_length

\* A merge that converts bytes to buffers in every variant.
MergeLengthAllPattern(v, prev_length, conf_length) ==
    InheritSmaller(prev_length, PatternCount(conf_length))

\* A pattern-fill merge that inherits before it converts bytes to buffers.
MergeLengthMixedUnits(v, prev_length, conf_length) ==
    IF v = "pattern"
    THEN PatternCount(InheritSmaller(prev_length, conf_length))
    ELSE InheritSmaller(prev_length, conf_length)

\* ngx_http_dali_merge_conf: the value left in conf->length.
MergeLength(v, prev_length, conf_length) ==
    IF v = "pattern"
    THEN InheritSmaller(prev_length, PatternCount(conf_length))
    ELSE InheritSmaller(prev_length, conf_length)

-----------------------------------------------------------------------------
(* Time and the timing report of the instrumented variant.                 *)

NSEC_PER_SEC == 1000000000

\* Readings of CLOCK_MONOTONIC (struct timespec).
Timespec(sec, nsec) == [tv_sec |-> sec, tv_nsec |-> nsec]

\* The pairs (before, after) of readings explored: no time passed, 2 ms and
\* 1 ns with a smaller nanosecond field after than before, 1 ms without.
\* The clock is monotonic: after is never earlier than before.
ClockPairs ==
    { <<Timespec(0, 999000000), Timespec(0, 999000000)>>,
      <<Timespec(0, 999000000), Timespec(1, 1000000)>>,
      <<Timespec(1, 999999999), Timespec(2, 0)>>,
      <<Timespec(1, 0), Timespec(1, 1000000)>> }

\* assert(older->tv_sec <= newer->tv_sec)
diff_timespec_assert(older, newer) == older.tv_sec <= newer.tv_sec

\* A difference that forgets to borrow a second.
diff_timespec_no_borrow(older, newer) ==
    Timespec(newer.tv_sec - older.tv_sec, newer.tv_nsec - older.tv_nsec)

\* diff_timespec
diff_timespec(older, newer) ==
    LET sec == newer.tv_sec - older.tv_sec
        nsec == newer.tv_nsec - older.tv_nsec
    IN  IF nsec < 0
        THEN Timespec(sec - 1, nsec + NSEC_PER_SEC)
        ELSE Timespec(sec, nsec)

\* flatten_timespec_to_ms: ((tv_sec * 1e9) + tv_nsec) / 0.001, in double
\* arithmetic; dividing by 0.001 multiplies by 1000, and the values explored
\* are integers a double holds exactly.
flatten_timespec_to_ms(ts) == ((ts.tv_sec * NSEC_PER_SEC) + ts.tv_nsec) * 1000

\* Number of decimal digits of a natural number, as printf renders it.
RECURSIVE Digits(_)
Digits(n) == IF n < 10 THEN 1 ELSE 1 + Digits(n \div 10)

\* Characters of the report template outside its three conversions:
\* {"DurationMS": %.8f, "Bytes": %d, "BPS": %d}
JSON_TEMPLATE_TEXT == 36

\* snprintf(NULL, 0, response_json_template, duration, size, 0): the length
\* of the rendered report, "%.8f" giving the integer digits, a point and
\* eight decimals.
JsonTextLen(duration, size) ==
    JSON_TEMPLATE_TEXT + (Digits(duration) + 1 + 8) + Digits(size) + Digits(0)

\* response_json_len: the rendered length plus one.
ResponseJsonLen(duration, size) == JsonTextLen(duration, size) + 1

-----------------------------------------------------------------------------
(* Requests.                                                               *)

CONTENT_TYPE == "application/octet-stream"

DiscardRcs == {NGX_OK, NGX_HTTP_BAD_REQUEST, NGX_HTTP_INTERNAL_SERVER_ERROR}

SendHeaderRcs == {NGX_OK, NGX_ERROR, NGX_HTTP_INTERNAL_SERVER_ERROR}

FilterRcs == {NGX_OK, NGX_ERROR}

ReadRcs == {NGX_OK, NGX_AGAIN, NGX_HTTP_BAD_REQUEST}

\* r->request_body after the drain: NULL, or a body with `received` bytes.
Body(present, received) == [present |-> present, received |-> received]

Bodies == {Body(FALSE, 0), Body(TRUE, 0), Body(TRUE, 1000)}

\* A drain: the bytes of body the client supplied, and r->request_body once
\* ngx_http_discard_request_body has returned.  Discarding consumes the body
\* without recording it: r->request_body stays NULL, or (chunked transfer)
\* is allocated with nothing received.  It holds the received count only
\* when an earlier phase has read the body already.
Drain(supplied, body) == [supplied |-> supplied, body |-> body]

Drains ==
    {Drain(0, Body(FALSE, 0)), Drain(0, Body(TRUE, 0)),
     Drain(1000, Body(FALSE, 0)), Drain(1000, Body(TRUE, 0)),
     Drain(1000, Body(TRUE, 1000))}

NoAlloc == [site |-> "none", index |-> 0]

Site(site, i) == [site |-> site, index |-> i]

\* What the environment does to one request: the outcomes of the calls the
\* handler makes into nginx and the operating system.
\*   conf_ok          ngx_http_get_module_loc_conf returns a configuration
\*   clock_*_ok       clock_gettime succeeds
\*   clocks           the readings (before, after) of the monotonic clock
\*   body             r->request_body after the drain
\*   supplied         the bytes of request body the client sent
\*   discard_rc       ngx_http_discard_request_body
\*   alloc_fail       the pool allocation that returns NULL, if any
\*   ub_crash         whether a write through a NULL pointer stops the worker
\*   open_ok          ngx_open_file("/dev/zero") succeeds
\*   fd               the descriptor it returns
\*   read_rc          ngx_http_read_client_request_body
\*   send_rc          ngx_http_send_header
\*   header_only      r->header_only once the header filters have run
\*   filter_rc        ngx_http_output_filter
DefaultEnv ==
    [conf_ok |-> TRUE, clock_before_ok |-> TRUE, clock_after_ok |-> TRUE,
     clocks |-> <<Timespec(1, 0), Timespec(1, 1000000)>>, body |-> Body(FALSE, 0),
     supplied |-> 0, fd |-> 0,
     discard_rc |-> NGX_OK, alloc_fail |-> NoAlloc, ub_crash |-> TRUE,
     open_ok |-> TRUE, read_rc |-> NGX_OK, send_rc |-> NGX_OK,
     header_only |-> FALSE, filter_rc |-> NGX_OK]

\* The outcomes of sending: every result of the send-headers primitive, and
\* after a successful one every combination of header-only and filter result.
SendEnvs ==
    {[DefaultEnv EXCEPT !.send_rc = s] : s \in SendHeaderRcs \ {NGX_OK}}
    \cup {[DefaultEnv EXCEPT !.header_only = h, !.filter_rc = f] :
             h \in BOOLEAN, f \in FilterRcs}

ConfEnvs == {[DefaultEnv EXCEPT !.conf_ok = FALSE]}

DiscardEnvs ==
    {[DefaultEnv EXCEPT !.discard_rc = d] : d \in DiscardRcs \ {NGX_OK}}

AllocEnvs(sites) ==
    {[DefaultEnv EXCEPT !.alloc_fail = a, !.ub_crash = u] :
        a \in sites, u \in BOOLEAN}

OpenEnvs == {[DefaultEnv EXCEPT !.open_ok = FALSE]}

ReadEnvs == {[DefaultEnv EXCEPT !.read_rc = x] : x \in ReadRcs \ {NGX_OK}}

\* The clock and the inbound body vary independently of everything else.
Timed(E) ==
    {[e EXCEPT !.clock_before_ok = b, !.clock_after_ok = a, !.clocks = c,
               !.body = y.body, !.supplied = y.supplied] :
        e \in E, b \in BOOLEAN, a \in BOOLEAN, c \in ClockPairs, y \in Drains}

\* The largest number of buffers the configured lengths ask for.
MaxCount == 3

\* The environments of one request, per variant: each call reached by the
\* handler takes each of its outcomes; calls a path does not reach are left
\* at their default.
Envs(v) ==
    CASE v = "sync" ->
           ConfEnvs \cup DiscardEnvs \cup OpenEnvs \cup SendEnvs
           \cup AllocEnvs({Site(s, 0) :
                             s \in {"output_chain", "buffer", "file", "path"}})
      [] v = "async" ->
           ConfEnvs \cup OpenEnvs \cup ReadEnvs \cup SendEnvs
           \cup AllocEnvs({Site(s, 0) :
                  s \in {"ctx", "output_chain", "buffer", "file", "cleanup"}})
      [] v = "instr" ->
           ConfEnvs
           \cup Timed(DiscardEnvs \cup SendEnvs
                      \cup AllocEnvs({Site(s, 0) :
                             s \in {"response_json", "memory", "response_b"}}))
      [] v = "pattern" ->
           ConfEnvs \cup DiscardEnvs \cup SendEnvs
           \cup AllocEnvs({Site(s, i) :
                  s \in {"response_buffer", "new_ngx_chain"},
                  i \in 0 .. (MaxCount - 1)})

Failed(in, site) == in.alloc_fail = Site(site, 0)

FailedAt(in, site, i) == in.alloc_fail = Site(site, i)

NoRequest == [pc |-> "none"]

\* The request as nginx hands it to the handler (ngx_http_create_request):
\* no status, content_length_n = -1, nothing sent.  sendfile is on for the
\* connection, as a "sendfile on" configuration sets it.
NewRequest(s) ==
    [pc |-> "handling", scope |-> s, header_only |-> FALSE,
     rc |-> NGX_OK, conf_ok |-> FALSE,
     discard_rc |-> NGX_OK, send_header_rc |-> NGX_OK,
     content_type |-> "", status |-> 0, content_length_n |-> -1,
     headers |-> <<>>, sendfile |-> TRUE, allow_ranges |-> FALSE,
     chain |-> <<>>, out |-> <<>>, emitted |-> FALSE,
     fd |-> "unopened", dev_zero_fd |-> 0, open_failed |-> FALSE, read_rc |-> NGX_OK,
     closes |-> 0, cleanup |-> FALSE, ctx |-> FALSE,
     ctx_length |-> 0, crit |-> 0, alloc_failed |-> FALSE,
     clock_success |-> FALSE, clocks |-> <<>>,
     body_read_duration_ts |-> Timespec(0, 0),
     body_read_duration |-> 0, body_read_size |-> 0, bps |-> 0,
     supplied |-> 0,
     response_json_len |-> 0, finalized |-> 0, how |-> "", stages |-> <<>>]

\* The request passes a point of its handling: the stages it has been
\* through, in order.
Stage(r, name) == [r EXCEPT !.stages = Append(r.stages, name)]

\* ngx_http_send_header: the header fields as they are when the primitive is
\* invoked are what goes on the wire; the header filters decide header_only.
SendHeader(r, in) ==
    [r EXCEPT !.headers = Append(r.headers,
                  [status |-> r.status, content_type |-> r.content_type,
                   content_length_n |-> r.content_length_n,
                   allow_ranges |-> r.allow_ranges, sendfile |-> r.sendfile]),
              !.header_only = (in.send_rc = NGX_OK /\ in.header_only),
              !.stages = Append(r.stages, "HeadersSent")]

\* A handler that leaves the Content-Type as it found it.
SetContentTypeBroken(r) == r

\* r->headers_out.content_type = "application/octet-stream"
SetContentType(r) == [r EXCEPT !.content_type = CONTENT_TYPE]

\* A handler that leaves sendfile as the connection has it.
DisableSendfileBroken(r) == r

\* r->connection->sendfile = 0
DisableSendfile(r) == [r EXCEPT !.sendfile = FALSE]

\* ngx_log_error(NGX_LOG_CRIT, ...)
LogCrit(r) == [r EXCEPT !.crit = r.crit + 1]

\* The handler returns rc to nginx.
Return(r, rc) == [r EXCEPT !.pc = "returned", !.rc = rc]

\* A failed assert() that aborts the worker process.
AssertFailed(r) == [r EXCEPT !.pc = "crashed"]

\* A write through a NULL pointer that stops the worker process.
Crash(r) == [r EXCEPT !.pc = "crashed", !.alloc_failed = TRUE]

AllocFailed(r) == [r EXCEPT !.alloc_failed = TRUE]

\* ngx_http_output_filter(r, chain)
OutputFilter(r, chain, rc) ==
    [r EXCEPT !.out = chain, !.emitted = TRUE, !.rc = rc,
              !.stages = Append(r.stages, "BodySent")]

\* A continuation that finalizes the request a second time.
FinalizeTwice(r, rc) ==
    [r EXCEPT !.pc = "finalized", !.rc = rc, !.finalized = r.finalized + 2]

\* ngx_http_finalize_request(r, rc)
Finalize(r, rc) ==
    [r EXCEPT !.pc = "finalized", !.rc = rc, !.finalized = r.finalized + 1]

-----------------------------------------------------------------------------
(* The zero-source variants.                                               *)

\* The end of the window of /dev/zero: buffer->file_last = conf->length.
ZeroEnd(length) == length

\* The single descriptor of the zero-source variants.
ZeroBuffer(length) ==
    [in_file |-> TRUE, memory |-> FALSE, src |-> "/dev/zero",
     pos |-> 0, last |-> ZeroEnd(length), prefix |-> 0, fill |-> "zero",
     fd |-> 0, last_buf |-> TRUE, last_in_chain |-> TRUE]

\* The descriptor once buffer->file->fd holds the open descriptor.
ZeroFileBuffer(length, fd) == [ZeroBuffer(length) EXCEPT !.fd = fd]

\* A Content-Length one quantum too long.
ZeroContentLengthBroken(length) == length + RESPONSE_MULTIPLE

\* r->headers_out.content_length_n of the zero-source variants.
ZeroContentLength(length) == length

\* ngx_http_dali_handler, synchronous zero-source variant.
SyncHandler(r0, in) ==
    LET r1 == [SetContentType(r0) EXCEPT !.conf_ok = in.conf_ok]
        r2pre == [Stage(r1, "ConfigResolved") EXCEPT
                         !.discard_rc = in.discard_rc]
        r2 == IF in.discard_rc > NGX_OK
              THEN r2pre
              ELSE Stage(r2pre, "BodyDrained")
        anyNull == Failed(in, "output_chain") \/ Failed(in, "buffer")
                       \/ Failed(in, "file") \/ Failed(in, "path")
        r3 == [r2 EXCEPT !.fd = "open", !.dev_zero_fd = in.fd]
        r4 == [DisableSendfile(Stage(r3, "ChainAssembled")) EXCEPT
                         !.chain = <<ZeroFileBuffer(conf[r0.scope], in.fd)>>,
                         !.content_length_n = ZeroContentLength(conf[r0.scope]),
                         !.status = NGX_HTTP_OK]
        r5 == [SendHeader(r4, in) EXCEPT !.send_header_rc = in.send_rc]
        r6 == [r5 EXCEPT !.allow_ranges = TRUE]
    IN  IF ~in.conf_ok
        THEN Return(LogCrit(r1), NGX_HTTP_INTERNAL_SERVER_ERROR)
        ELSE IF in.discard_rc > NGX_OK
        THEN Return(LogCrit(r2), NGX_HTTP_INTERNAL_SERVER_ERROR)
        ELSE IF Failed(in, "buffer") /\ in.ub_crash
        THEN Crash(r2)
        ELSE IF anyNull
        THEN Return(LogCrit(AllocFailed(r2)), NGX_HTTP_INTERNAL_SERVER_ERROR)
        ELSE IF ~in.open_ok
        THEN Return(LogCrit([r2 EXCEPT !.open_failed = TRUE]),
                    NGX_HTTP_INTERNAL_SERVER_ERROR)
        ELSE IF in.send_rc = NGX_ERROR
        THEN Return(LogCrit(r5), in.send_rc)
        ELSE IF in.send_rc > NGX_OK \/ r5.header_only
        THEN Return(r6, in.send_rc)
        ELSE Return(OutputFilter(r6, r6.chain, in.filter_rc), in.filter_rc)

\* ngx_http_dali_client_body_fetched_handler, the continuation of the
\* asynchronous variant.
BodyFetchedHandler(r0, in) ==
    LET r1 == DisableSendfile(
                  [SetContentType(Stage(r0, "BodyDrained")) EXCEPT
                         !.content_length_n = ZeroContentLength(r0.ctx_length),
                         !.status = NGX_HTTP_OK])
        r2 == [SendHeader(r1, in) EXCEPT !.send_header_rc = in.send_rc]
    IN  IF ~r0.ctx
        THEN Finalize(LogCrit(r0), NGX_HTTP_INTERNAL_SERVER_ERROR)
        ELSE IF in.send_rc = NGX_ERROR
        THEN Finalize(LogCrit(r2), NGX_HTTP_INTERNAL_SERVER_ERROR)
        ELSE IF in.send_rc > NGX_OK \/ r2.header_only
        THEN Finalize(r2, NGX_HTTP_INTERNAL_SERVER_ERROR)
        ELSE Finalize(OutputFilter(r2, r2.chain, in.filter_rc), in.filter_rc)

\* ngx_http_dali_handler, asynchronous zero-source variant.  When the body
\* is already there, ngx_http_read_client_request_body runs the continuation
\* before it returns; otherwise the request waits for the body.
AsyncHandler(r0, in) ==
    LET r1 == [r0 EXCEPT !.conf_ok = in.conf_ok]
        r2 == [Stage(r1, "ConfigResolved") EXCEPT
                         !.ctx_length = conf[r0.scope]]
        anyNull == Failed(in, "output_chain") \/ Failed(in, "buffer")
                       \/ Failed(in, "file")
        r3 == [r2 EXCEPT !.fd = "open", !.dev_zero_fd = in.fd]
        r4pre == [Stage(r3, "ChainAssembled") EXCEPT
                         !.cleanup = TRUE,
                         !.chain = <<ZeroFileBuffer(conf[r0.scope],
                                                    r3.dev_zero_fd)>>,
                         !.ctx = TRUE,
                         !.read_rc = in.read_rc]
        r4 == Stage(r4pre, "AwaitingBody")
    IN  IF Failed(in, "ctx")
        THEN Return(LogCrit(AllocFailed(r0)), NGX_HTTP_INTERNAL_SERVER_ERROR)
        ELSE IF ~in.conf_ok
        THEN Return(LogCrit(r1), NGX_HTTP_INTERNAL_SERVER_ERROR)
        ELSE IF Failed(in, "buffer") /\ in.ub_crash
        THEN Crash(r2)
        ELSE IF anyNull
        THEN Return(LogCrit(AllocFailed(r2)), NGX_HTTP_INTERNAL_SERVER_ERROR)
        ELSE IF ~in.open_ok
        THEN Return(LogCrit([r2 EXCEPT !.open_failed = TRUE]),
                    NGX_HTTP_INTERNAL_SERVER_ERROR)
        ELSE IF Failed(in, "cleanup")
        THEN Return(AllocFailed(r3), NGX_HTTP_INTERNAL_SERVER_ERROR)
        ELSE IF in.read_rc > NGX_OK
        THEN Return(r4, in.read_rc)
        ELSE IF in.read_rc = NGX_AGAIN
        THEN [r4 EXCEPT !.pc = "awaiting", !.rc = in.read_rc]
        ELSE BodyFetchedHandler(r4, in)

-----------------------------------------------------------------------------
(* The instrumented variant.                                               *)

\* The comparison as a signed one.
UnsignedGreaterBroken(rc, than) == rc > than

\* ngx_rc is an ngx_uint_t: "ngx_rc > NGX_OK" holds of every value but 0.
UnsignedGreater(rc, than) == rc # than

\* A total that counts a report terminator even when there is no report.
InstrTotalBroken(length, response_json_len) ==
    (length + response_json_len + 1) % SizeMod

\* The number of bytes of the response: conf->length + response_json_len.
InstrTotal(length, response_json_len) == (length + response_json_len) % SizeMod

\* The single in-memory descriptor: the first response_json_len bytes of the
\* report buffer copied to the front of an ngx_pcalloc'ed (zero-filled)
\* allocation of InstrTotal bytes, nothing written after them.
InstrBuffer(length, response_json_len) ==
    [in_file |-> FALSE, memory |-> TRUE, src |-> "memory",
     pos |-> 0, last |-> InstrTotal(length, response_json_len),
     prefix |-> response_json_len, fill |-> "zero",
     last_buf |-> TRUE, last_in_chain |-> FALSE]

\* The common error exit of the instrumented and pattern-fill handlers.
BailOut(r, in, rc) ==
    Return(SendHeader([r EXCEPT !.status = NGX_HTTP_INTERNAL_SERVER_ERROR,
                                !.content_length_n = 0], in), rc)

\* ngx_http_dali_handler, instrumented variant.
InstrHandler(r0, in) ==
    LET r1 == [SetContentType(r0) EXCEPT !.conf_ok = in.conf_ok]
        clock_success == in.clock_before_ok /\ in.clock_after_ok
        ordered == diff_timespec_assert(in.clocks[1], in.clocks[2])
        duration_ts == diff_timespec(in.clocks[1], in.clocks[2])
        duration == flatten_timespec_to_ms(duration_ts)
        size == IF in.body.present THEN in.body.received ELSE 0
        len == IF clock_success THEN ResponseJsonLen(duration, size) ELSE 0
        r2pre == [Stage(r1, "ConfigResolved") EXCEPT
                 !.discard_rc = in.discard_rc,
                 !.crit = r1.crit
                          + (IF in.clock_before_ok THEN 0 ELSE 1)
                          + (IF UnsignedGreater(in.discard_rc, NGX_OK)
                             THEN 1 ELSE 0)
                          + (IF in.clock_after_ok THEN 0 ELSE 1),
                 !.clock_success = clock_success,
                 !.clocks = IF clock_success THEN in.clocks ELSE <<>>,
                 !.body_read_duration_ts =
                     IF clock_success THEN duration_ts ELSE Timespec(0, 0),
                 !.body_read_duration = IF clock_success THEN duration ELSE 0,
                 !.body_read_size = IF clock_success THEN size ELSE 0,
                 !.supplied = in.supplied,
                 !.response_json_len = len]
        r2 == IF UnsignedGreater(in.discard_rc, NGX_OK)
              THEN r2pre
              ELSE Stage(r2pre, "BodyDrained")
        jsonNull == clock_success /\ Failed(in, "response_json")
        r3 == [Stage(r2, "ChainAssembled") EXCEPT
                         !.chain = <<InstrBuffer(conf[r0.scope], len)>>,
                         !.content_length_n = InstrTotal(conf[r0.scope], len),
                         !.status = NGX_HTTP_OK]
        r4 == [SendHeader(r3, in) EXCEPT !.send_header_rc = in.send_rc]
    IN  IF ~in.conf_ok
        THEN BailOut(LogCrit(r1), in, NGX_ERROR)
        ELSE IF clock_success /\ ~ordered
        THEN AssertFailed(r1)
        ELSE IF jsonNull /\ in.ub_crash
        THEN Crash(r2)
        ELSE IF UnsignedGreater(in.discard_rc, NGX_OK)
        THEN BailOut(r2, in, NGX_ERROR)
        ELSE IF Failed(in, "memory") \/ Failed(in, "response_b")
        THEN BailOut(LogCrit(AllocFailed(r2)), in, NGX_ERROR)
        ELSE IF jsonNull
        THEN Crash(r2)
        ELSE IF UnsignedGreater(in.send_rc, NGX_OK)
        THEN Return(LogCrit(r4), in.send_rc)
        ELSE Return(OutputFilter(r4, r4.chain, in.filter_rc), in.filter_rc)

-----------------------------------------------------------------------------
(* The pattern-fill variant.                                               *)

\* A loop that stops one byte short of the end of the buffer.
x_initialize_short(buffer_size) == buffer_size - 1

\* x_initialize: the number of bytes, from the start of the buffer, that the
\* loop sets to 'x'.
x_initialize(buffer_size) == buffer_size

\* What a window [pos, last) of response_contents holds: the descriptor
\* points into the shared buffer, it has no bytes of its own.
PatternBytes(pos, last) ==
    IF last <= response_contents THEN "x"
    ELSE IF pos >= response_contents THEN "zero"
    ELSE "x then zero"

\* One descriptor of the pattern-fill chain: the whole shared buffer.
PatternBuffer(index, count) ==
    [in_file |-> FALSE, memory |-> TRUE, src |-> "response_contents",
     pos |-> 0, last |-> RESPONSE_MULTIPLE, prefix |-> 0,
     fill |-> PatternBytes(0, RESPONSE_MULTIPLE),
     last_buf |-> (index + 1 = count), last_in_chain |-> FALSE]

\* The chain-building loop of the pattern-fill handler, from `index` on.
\* st.head: output_chain_head is not NULL; st.chain: the descriptors reachable
\* from it; st.linked: output_chain_iterator is the end of that list.
RECURSIVE PatternLoop(_, _, _, _)
PatternLoop(index, count, in, st) ==
    IF index >= count
    THEN st
    ELSE IF FailedAt(in, "response_buffer", index)
    THEN [st EXCEPT !.head = FALSE, !.chain = <<>>, !.failed = TRUE,
                    !.crit = st.crit + 1]
    ELSE IF FailedAt(in, "new_ngx_chain", index)
    THEN IF in.ub_crash
         THEN [st EXCEPT !.crashed = TRUE, !.failed = TRUE]
         ELSE PatternLoop(index + 1, count, in,
                  [st EXCEPT !.head = (index # 0 /\ st.head),
                             !.linked = FALSE, !.failed = TRUE])
    ELSE PatternLoop(index + 1, count, in,
             IF index = 0
             THEN [st EXCEPT !.head = TRUE, !.linked = TRUE,
                             !.chain = <<PatternBuffer(index, count)>>]
             ELSE IF st.linked
             THEN [st EXCEPT !.chain = Append(st.chain,
                                           PatternBuffer(index, count))]
             ELSE st)

\* r->headers_out.content_length_n of the pattern-fill variant.
PatternContentLength(count) == (count * RESPONSE_MULTIPLE) % SizeMod

\* ngx_http_dali_handler, pattern-fill variant.
PatternHandler(r0, in) ==
    LET r1 == [SetContentType(r0) EXCEPT !.conf_ok = in.conf_ok]
        r2pre == [Stage(r1, "ConfigResolved") EXCEPT
                         !.discard_rc = in.discard_rc]
        r2 == IF in.discard_rc > NGX_OK
              THEN r2pre
              ELSE Stage(r2pre, "BodyDrained")
        st == PatternLoop(0, conf[r0.scope], in,
                  [head |-> FALSE, linked |-> FALSE, chain |-> <<>>,
                   crashed |-> FALSE, failed |-> FALSE, crit |-> 0])
        r3 == [(IF st.head THEN Stage(r2, "ChainAssembled") ELSE r2) EXCEPT
                         !.chain = st.chain, !.crit = r2.crit + st.crit,
                         !.alloc_failed = st.failed]
        r4 == [r3 EXCEPT !.content_length_n =
                             PatternContentLength(conf[r0.scope]),
                         !.status = NGX_HTTP_OK]
        r5 == [SendHeader(r4, in) EXCEPT !.send_header_rc = in.send_rc]
    IN  IF ~in.conf_ok
        THEN BailOut(LogCrit(r1), in, NGX_HTTP_INTERNAL_SERVER_ERROR)
        ELSE IF in.discard_rc > NGX_OK
        THEN BailOut(LogCrit(r2), in, NGX_HTTP_INTERNAL_SERVER_ERROR)
        ELSE IF in.discard_rc = NGX_OK /\ st.crashed
        THEN Crash(r3)
        ELSE IF in.discard_rc # NGX_OK \/ ~st.head
        THEN BailOut(r3, in, NGX_HTTP_INTERNAL_SERVER_ERROR)
        ELSE IF in.send_rc = NGX_ERROR
        THEN Return(LogCrit(r5), in.send_rc)
        ELSE IF in.send_rc > NGX_OK \/ r5.header_only
        THEN Return(r5, in.send_rc)
        ELSE Return(OutputFilter(r5, r5.chain, in.filter_rc), in.filter_rc)

-----------------------------------------------------------------------------
(* The state machine.                                                      *)

Init ==
    /\ variant \in Variants
    /\ created = [s \in Scopes |-> FALSE]
    /\ raw = [s \in Scopes |-> 0]
    /\ conf = [s \in Scopes |-> 0]
    /\ handler = [s \in Scopes |-> FALSE]
    /\ merged = [s \in Scopes |-> FALSE]
    /\ req = [i \in {1} |-> NoRequest]
    /\ open_fds = {}
    /\ response_contents = 0

\* A block of the configuration file is entered: its configuration is
\* created, outermost block first.
CreateConf(s) ==
    /\ ~created[s]
    /\ \A t \in Scopes : t < s => created[t]
    /\ created' = [created EXCEPT ![s] = TRUE]
    /\ raw' = [raw EXCEPT ![s] = CreateLength]
    /\ conf' = [conf EXCEPT ![s] = CreateLength]
    /\ UNCHANGED <<variant, handler, merged, req, open_fds, response_contents>>

\* ngx_http_dali_enable: a "dali <size>" directive in a location block, read
\* while that block is the innermost one open.
Enable(s, size) ==
    /\ s \in Locations
    /\ created[s]
    /\ \A t \in Scopes : t > s => ~created[t]
    /\ \A t \in Scopes : ~merged[t]
    /\ ~handler[s]
    /\ handler' = [handler EXCEPT ![s] = TRUE]
    /\ raw' = [raw EXCEPT ![s] = size]
    /\ conf' = [conf EXCEPT ![s] = size]
    /\ response_contents' = IF variant = "pattern"
                            THEN x_initialize(RESPONSE_MULTIPLE)
                            ELSE response_contents
    /\ UNCHANGED <<variant, created, merged, req, open_fds>>

\* nginx merges after the whole file is read, each parent before its
\* children; the http-level configuration is never a child.
MergeConf(s) ==
    /\ s # 0
    /\ \A t \in Scopes : created[t]
    /\ ~merged[s]
    /\ \A t \in Scopes : (0 < t /\ t < s) => merged[t]
    /\ conf' = [conf EXCEPT ![s] = MergeLength(variant, conf[s - 1], conf[s])]
    /\ merged' = [merged EXCEPT ![s] = TRUE]
    /\ UNCHANGED <<variant, created, raw, handler, req, open_fds,
                   response_contents>>

ConfigDone == \A s \in Scopes : s # 0 => merged[s]

\* A build whose every variant runs the synchronous handler.
HandlerAllSync(r, in) == SyncHandler(r, in)

\* The handler of the variant that is built.
Handler(r, in) ==
    CASE variant = "sync" -> SyncHandler(r, in)
      [] variant = "async" -> AsyncHandler(r, in)
      [] variant = "instr" -> InstrHandler(r, in)
      [] variant = "pattern" -> PatternHandler(r, in)

\* The lowest descriptor number in use by the worker before any request.
FirstFd == 3

\* open(2) returns the lowest descriptor that is not open.
LowestFree ==
    CHOOSE f \in FirstFd .. (FirstFd + Cardinality(open_fds)) :
        /\ f \notin open_fds
        /\ \A g \in FirstFd .. (f - 1) : g \in open_fds

\* A handler that zeroes the length it was configured with.
HandlerConfBroken(length) == 0

\* conf->length once a handler or the continuation has run: they read it
\* and never assign it.
HandlerConf(length) == length

\* A request is routed to a location whose "dali" directive installed the
\* handler, and the handler runs.
Handle(i, s) ==
    /\ ConfigDone
    /\ req[i].pc = "none"
    /\ handler[s]
    /\ \E e \in Envs(variant) :
          LET r == Handler(NewRequest(s), [e EXCEPT !.fd = LowestFree])
          IN  /\ req' = [req EXCEPT ![i] = r]
              /\ open_fds' = IF r.dev_zero_fd # 0
                             THEN open_fds \cup {r.dev_zero_fd}
                             ELSE open_fds
    /\ conf' = [conf EXCEPT ![s] = HandlerConf(conf[s])]
    /\ UNCHANGED <<variant, created, raw, handler, merged, response_contents>>

\* The body of a waiting request has arrived: nginx runs the continuation.
BodyFetched(i) ==
    /\ req[i].pc = "awaiting"
    /\ \E in \in SendEnvs :
          req' = [req EXCEPT ![i] = BodyFetchedHandler(req[i], in)]
    /\ conf' = [conf EXCEPT ![req[i].scope] = HandlerConf(conf[req[i].scope])]
    /\ UNCHANGED <<variant, created, raw, handler, merged, open_fds,
                   response_contents>>

\* The client goes away while the request waits for its body: nginx ends the
\* request without running the continuation.
Abort(i) ==
    /\ req[i].pc = "awaiting"
    /\ req' = [req EXCEPT ![i] = [req[i] EXCEPT !.pc = "aborted"]]
    /\ UNCHANGED <<variant, created, raw, conf, handler, merged, open_fds,
                   response_contents>>

\* A cleanup that closes the first descriptor the worker opened.
CleanupFdBroken(r) == FirstFd

\* A cleanup that closes a descriptor the request did not open.
CleanupFdOther(r) == IF r.dev_zero_fd = FirstFd THEN FirstFd + 1 ELSE FirstFd

\* The descriptor ngx_http_dali_cleanup closes: dali_ctx->dev_zero_fd.
CleanupFd(r) == r.dev_zero_fd

\* ngx_http_dali_cleanup
Cleanup(r) == [r EXCEPT !.fd = "closed", !.closes = r.closes + 1]

\* A pool that runs no cleanup handler.
RunsCleanupBroken(r) == FALSE

\* Whether ngx_http_dali_cleanup is among the pool's cleanup handlers.
RunsCleanup(r) == r.cleanup

\* The request ends and nginx destroys its pool, running the cleanup
\* handlers registered on it.
DestroyPool(i) ==
    /\ req[i].pc \in {"returned", "finalized", "aborted"}
    /\ req' = [req EXCEPT ![i] =
                 [(IF RunsCleanup(req[i]) THEN Cleanup(req[i]) ELSE req[i])
                     EXCEPT !.pc = "destroyed", !.how = req[i].pc]]
    /\ open_fds' = IF RunsCleanup(req[i])
                   THEN open_fds \ {CleanupFd(req[i])}
                   ELSE open_fds
    /\ UNCHANGED <<variant, created, raw, conf, handler, merged,
                   response_contents>>

Next ==
    \/ \E s \in Scopes : CreateConf(s)
    \/ \E s \in Scopes, size \in LengthValues : Enable(s, size)
    \/ \E s \in Scopes : MergeConf(s)
    \/ \E i \in DOMAIN req, s \in Locations : Handle(i, s)
    \/ \E i \in DOMAIN req : BodyFetched(i)
    \/ \E i \in DOMAIN req : Abort(i)
    \/ \E i \in DOMAIN req : DestroyPool(i)

Spec == Init /\ [][Next]_vars

\* Two requests in flight in one worker, in the variants that own a device
\* handle.
ConcurrentInit ==
    /\ variant \in {"sync", "async"}
    /\ created = [s \in Scopes |-> FALSE]
    /\ raw = [s \in Scopes |-> 0]
    /\ conf = [s \in Scopes |-> 0]
    /\ handler = [s \in Scopes |-> FALSE]
    /\ merged = [s \in Scopes |-> FALSE]
    /\ req = [i \in {1, 2} |-> NoRequest]
    /\ open_fds = {}
    /\ response_contents = 0

ConcurrentSpec == ConcurrentInit /\ [][Next]_vars

\* The host eventually delivers the body of a waiting request or ends it.
LiveSpec ==
    Spec /\ WF_vars(\E i \in DOMAIN req : BodyFetched(i) \/ Abort(i))

-----------------------------------------------------------------------------
(* Properties.                                                             *)

CeilDiv(n, q) == (n + q - 1) \div q

BufLen(b) == b.last - b.pos

\* The header fields of the last invocation of the send-headers primitive.
Sent(r) == r.headers[Len(r.headers)]

Handled(r) == r.pc \in {"returned", "finalized", "aborted", "destroyed"}

Children == Scopes \ {0}

ZeroSource == variant \in {"sync", "async"}

\* C1: in the zero-source variants, a request that opened the zero device
\* has had the handle closed exactly once when its lifetime has ended,
\* whichever way it ended.
C1_HandleClosedOnce ==
    ZeroSource =>
        \A i \in DOMAIN req :
            (req[i].pc = "destroyed" /\ req[i].fd # "unopened")
                => req[i].closes = 1

\* C2: under Pattern-Fill a successful response for a configured length
\* L >= 1 that no parent shrinks is ceil(L/4096) buffers of 4096 bytes and
\* carries Content-Length ceil(L/4096) * 4096.
C2_PatternFillLayout ==
    variant = "pattern" =>
        \A i \in DOMAIN req :
            LET r == req[i]
                L == raw[r.scope]
                n == CeilDiv(L, RESPONSE_MULTIPLE)
                parent == conf[r.scope - 1]
            IN  (r.pc # "none" /\ r.emitted /\ ~r.alloc_failed /\ L >= 1
                 /\ ~(parent > 0 /\ parent < n))
                    => /\ Len(r.out) = n
                       /\ \A k \in 1 .. Len(r.out) :
                              BufLen(r.out[k]) = RESPONSE_MULTIPLE
                       /\ Sent(r).status = NGX_HTTP_OK
                       /\ Sent(r).content_length_n = n * RESPONSE_MULTIPLE

C2_Witness ==
    \E i \in DOMAIN req :
        /\ variant = "pattern"
        /\ req[i].pc # "none"
        /\ req[i].emitted
        /\ ~req[i].alloc_failed
        /\ raw[req[i].scope] = 10000
        /\ Len(req[i].out) = 3
        /\ Sent(req[i]).content_length_n = 12288

\* C3: under Pattern-Fill with configured length 0 the buffer count is 1 and
\* a request nothing goes wrong for ends with status 200 and one full
\* quantum in a single buffer marked last.
C3_ZeroLengthOneQuantum ==
    variant = "pattern" =>
        \A i \in DOMAIN req :
            LET r == req[i]
            IN  (Handled(r) /\ raw[r.scope] = 0 /\ r.conf_ok
                 /\ r.discard_rc = NGX_OK /\ ~r.alloc_failed
                 /\ r.send_header_rc = NGX_OK /\ ~r.header_only)
                    => /\ conf[r.scope] = 1
                       /\ r.status = NGX_HTTP_OK
                       /\ Len(r.out) = 1
                       /\ BufLen(r.out[1]) = RESPONSE_MULTIPLE
                       /\ r.out[1].last_buf

\* C4: in the zero-source variants a successful response for the resolved
\* length L has Content-Length L and a chain of one file-backed descriptor,
\* the window [0, L) of the zero device, marked last.
C4_ZeroSourceExactLength ==
    ZeroSource =>
        \A i \in DOMAIN req :
            LET r == req[i]
                L == conf[r.scope]
            IN  (r.pc # "none" /\ r.emitted)
                    => /\ Len(r.headers) = 1
                       /\ Sent(r).status = NGX_HTTP_OK
                       /\ Sent(r).content_length_n = L
                       /\ Len(r.out) = 1
                       /\ r.out[1].in_file
                       /\ ~r.out[1].memory
                       /\ r.out[1].src = "/dev/zero"
                       /\ r.out[1].pos = 0
                       /\ r.out[1].last = L
                       /\ r.out[1].last_buf

C4_Witness ==
    \E i \in DOMAIN req :
        /\ variant = "async"
        /\ req[i].pc = "finalized"
        /\ req[i].emitted
        /\ conf[req[i].scope] = 10000
        /\ BufLen(req[i].out[1]) = 10000

\* C5: under Instrumented-Hybrid, when the report of N bytes fits the
\* resolved length L, the Content-Length and the body are exactly L bytes.
C5_ReportInsideBudget ==
    variant = "instr" =>
        \A i \in DOMAIN req :
            LET r == req[i]
                L == conf[r.scope]
            IN  (r.pc # "none" /\ r.emitted /\ r.response_json_len <= L)
                    => /\ Sent(r).content_length_n = L
                       /\ BufLen(r.out[1]) = L

\* C6: under Instrumented-Hybrid, when the report is longer than the
\* resolved length L, the request ends with a server error and no chain is
\* handed to the transport.
C6_FailClosedWhenReportTooLarge ==
    variant = "instr" =>
        \A i \in DOMAIN req :
            LET r == req[i]
            IN  (Handled(r) /\ r.clock_success
                 /\ r.response_json_len > conf[r.scope])
                    => /\ ~r.emitted
                       /\ r.status >= NGX_HTTP_INTERNAL_SERVER_ERROR

\* C7: in every variant, after merge the child holds the parent's length
\* when that is positive and smaller than the child's own pre-merge length,
\* and its own pre-merge length otherwise.
C7_MergeLaw ==
    \A s \in Children :
        merged[s] =>
            conf[s] = IF conf[s - 1] > 0 /\ conf[s - 1] < raw[s]
                      THEN conf[s - 1]
                      ELSE raw[s]

\* C7, amended: the law holds with the child's own value being its
\* pre-merge length in the zero-source and instrumented variants, and the
\* buffer count ceil(pre-merge length / 4096) in the Pattern-Fill variant.
C7_MergeLawAmended ==
    \A s \in Children :
        merged[s] =>
            LET own == IF variant = "pattern"
                       THEN CeilDiv(raw[s], RESPONSE_MULTIPLE)
                       ELSE raw[s]
            IN  conf[s] = IF conf[s - 1] > 0 /\ conf[s - 1] < own
                          THEN conf[s - 1]
                          ELSE own

C7_Witness ==
    \E s \in Locations :
        /\ variant = "instr"
        /\ merged[s]
        /\ handler[s]
        /\ conf[s - 1] = 1
        /\ raw[s] = RESPONSE_MULTIPLE
        /\ conf[s] = 1

\* C8: merging a child that has no directive leaves it with the parent's
\* length, whatever the parent's length is.
C8_UnsetChildInherits ==
    \A s \in Children :
        (merged[s] /\ raw[s] = NGX_CONF_UNSET_SIZE) => conf[s] = conf[s - 1]

-----------------------------------------------------------------------------
(* Emission and error handling.                                            *)

\* The response carries a 5xx status: the one the module sent in its
\* headers, or the one it returned to nginx to answer with.
ServerError(r) ==
    \/ r.rc >= NGX_HTTP_INTERNAL_SERVER_ERROR
    \/ Len(r.headers) > 0 /\ Sent(r).status >= NGX_HTTP_INTERNAL_SERVER_ERROR

\* C11: in the zero-source variants, whenever the send-headers primitive is
\* invoked with status 200, byte-range support is already enabled on the
\* request.
C11_RangesEnabledBeforeHeaders ==
    ZeroSource =>
        \A i \in DOMAIN req :
            req[i].pc # "none" =>
                \A k \in 1 .. Len(req[i].headers) :
                    req[i].headers[k].status = NGX_HTTP_OK
                        => req[i].headers[k].allow_ranges

\* C12: in the zero-source variants sendfile is off when the headers are
\* sent and still off when the chain is handed to the transport.
C12_NoSendfileForZeroDevice ==
    ZeroSource =>
        \A i \in DOMAIN req :
            req[i].pc # "none" =>
                /\ \A k \in 1 .. Len(req[i].headers) :
                       ~req[i].headers[k].sendfile
                /\ req[i].emitted => ~req[i].sendfile

C12_Witness ==
    \E i \in DOMAIN req :
        /\ variant = "sync"
        /\ req[i].pc = "returned"
        /\ req[i].emitted
        /\ Len(req[i].headers) = 1
        /\ req[i].out[1].src = "/dev/zero"
        /\ ~req[i].sendfile

\* C13: in every variant a request whose configuration is missing, whose
\* inbound body could not be drained or whose zero device could not be
\* opened ends with a 5xx status and no chain handed to the transport,
\* after a single attempt.
C13_TerminalServerErrors ==
    \A i \in DOMAIN req :
        LET r == req[i]
        IN  (Handled(r)
             /\ (\/ ~r.conf_ok
                 \/ r.discard_rc # NGX_OK
                 \/ r.read_rc > NGX_OK
                 \/ r.open_failed))
                => /\ ServerError(r)
                   /\ ~r.emitted
                   /\ Len(r.headers) <= 1
                   /\ r.finalized <= 1

\* C14: in every variant a request one of whose allocations failed ends
\* with a 5xx status and no body, and the failed allocation's result was not
\* written through before it was checked.
C14_AllocationFailureHandled ==
    \A i \in DOMAIN req :
        LET r == req[i]
        IN  (r.pc # "none" /\ r.alloc_failed)
                => /\ r.pc # "crashed"
                   /\ ServerError(r)
                   /\ ~r.emitted

\* C15: in every variant, when the send-headers primitive reports an error
\* for the response, the request ends with a failure (the primitive's result
\* or a server error) and the chain is never handed to the transport.
C15_HeaderSendFailureEndsRequest ==
    \A i \in DOMAIN req :
        LET r == req[i]
        IN  (Handled(r) /\ r.send_header_rc # NGX_OK)
                => /\ ~r.emitted
                   /\ r.out = <<>>
                   /\ r.rc \in {r.send_header_rc,
                                NGX_HTTP_INTERNAL_SERVER_ERROR}

C15_Witness ==
    \E i \in DOMAIN req :
        /\ variant = "instr"
        /\ req[i].pc = "returned"
        /\ Len(req[i].headers) = 1
        /\ Sent(req[i]).status = NGX_HTTP_OK
        /\ req[i].send_header_rc = NGX_ERROR
        /\ req[i].rc = NGX_ERROR
        /\ ~req[i].emitted

\* The handler or the continuation itself ended the request with an error.
ErrorExit(r) ==
    /\ Handled(r)
    /\ r.pc # "aborted"
    /\ r.how # "aborted"
    /\ ~r.emitted
    /\ (r.rc = NGX_ERROR \/ r.rc >= NGX_HTTP_BAD_REQUEST)

\* C16: in every variant, a request the handler or the continuation ended
\* with an error has a critical-severity log entry.
C16_NoSilentErrorExit ==
    \A i \in DOMAIN req : ErrorExit(req[i]) => req[i].crit >= 1

\* C17: in every variant, at every invocation of the send-headers primitive
\* the Content-Type is application/octet-stream.
C17_ContentTypeAlwaysSet ==
    \A i \in DOMAIN req :
        req[i].pc # "none" =>
            \A k \in 1 .. Len(req[i].headers) :
                req[i].headers[k].content_type = "application/octet-stream"

C17_Witness ==
    \E i \in DOMAIN req :
        /\ variant = "pattern"
        /\ req[i].pc = "returned"
        /\ req[i].discard_rc # NGX_OK
        /\ Len(req[i].headers) = 1
        /\ Sent(req[i]).status = NGX_HTTP_INTERNAL_SERVER_ERROR
        /\ Sent(req[i]).content_type = "application/octet-stream"

-----------------------------------------------------------------------------
(* The chain.                                                              *)

\* The number of bytes of a chain: the sum of its descriptors' lengths.
RECURSIVE ChainBytes(_)
ChainBytes(chain) ==
    IF chain = <<>> THEN 0 ELSE BufLen(Head(chain)) + ChainBytes(Tail(chain))

\* The positions of a chain whose descriptor is marked last.
LastMarks(chain) == {k \in 1 .. Len(chain) : chain[k].last_buf}

-----------------------------------------------------------------------------
(* Timing.                                                                 *)

\* The nanoseconds a normalized timespec stands for.
Nanoseconds(ts) == (ts.tv_sec * NSEC_PER_SEC) + ts.tv_nsec

\* The nanoseconds between two readings of the clock.
Elapsed(before, after) ==
    ((after.tv_sec - before.tv_sec) * NSEC_PER_SEC)
        + (after.tv_nsec - before.tv_nsec)

Normalized(ts) == ts.tv_sec >= 0 /\ 0 <= ts.tv_nsec /\ ts.tv_nsec < NSEC_PER_SEC

\* C19: the flattened duration v of a normalized timespec is in
\* microseconds: v * 1000 is the timespec's number of nanoseconds.
C19_FlattenIsMicroseconds ==
    variant = "instr" =>
        \A i \in DOMAIN req :
            LET r == req[i]
                ns == Nanoseconds(r.body_read_duration_ts)
            IN  (r.pc # "none" /\ r.clock_success
                 /\ Normalized(r.body_read_duration_ts))
                    => /\ ns % 1000 = 0
                       /\ r.body_read_duration = ns \div 1000

\* C20: for clock readings before <= after the difference is normalized
\* (sec >= 0, 0 <= nsec < 10^9), stands for exactly the nanoseconds between
\* the readings, passes the tv_sec ordering assertion, and gives a reported
\* duration that is not negative.
C20_DifferenceNormalized ==
    variant = "instr" =>
        \A i \in DOMAIN req :
            LET r == req[i]
            IN  (r.pc # "none" /\ r.clock_success
                 /\ Normalized(r.clocks[1]) /\ Normalized(r.clocks[2])
                 /\ Elapsed(r.clocks[1], r.clocks[2]) >= 0)
                    => /\ Normalized(r.body_read_duration_ts)
                       /\ Nanoseconds(r.body_read_duration_ts)
                              = Elapsed(r.clocks[1], r.clocks[2])
                       /\ diff_timespec_assert(r.clocks[1], r.clocks[2])
                       /\ r.body_read_duration >= 0

C20_Witness ==
    \E i \in DOMAIN req :
        /\ variant = "instr"
        /\ req[i].pc = "returned"
        /\ req[i].clock_success
        /\ req[i].clocks = <<Timespec(0, 999000000), Timespec(1, 1000000)>>
        /\ req[i].body_read_duration_ts = Timespec(0, 2000000)

-----------------------------------------------------------------------------
(* The timing report.                                                      *)

\* C21: under Instrumented-Hybrid the report occupies at the front of the
\* body exactly the bytes of the JSON text the dry run measured, and the
\* Content-Length counts no byte beyond them and the configured length.
C21_ReportIsExactlyTheJsonText ==
    variant = "instr" =>
        \A i \in DOMAIN req :
            LET r == req[i]
                text == JsonTextLen(r.body_read_duration, r.body_read_size)
            IN  (r.pc # "none" /\ r.emitted /\ r.clock_success)
                    => /\ r.out[1].prefix = text
                       /\ Sent(r).content_length_n
                              = (conf[r.scope] + text) % SizeMod

\* C22: under Instrumented-Hybrid every body byte after the report is the
\* pattern byte 'x'.
C22_PatternAfterReport ==
    variant = "instr" =>
        \A i \in DOMAIN req :
            LET r == req[i]
            IN  (r.pc # "none" /\ r.emitted
                 /\ BufLen(r.out[1]) > r.out[1].prefix)
                    => r.out[1].fill = "x"

\* C23: the reported byte count is the number of body bytes the drain
\* received, 0 for a request without a body, and the throughput field is
\* the fixed placeholder 0.
C23_BytesReadIsBytesReceived ==
    variant = "instr" =>
        \A i \in DOMAIN req :
            LET r == req[i]
            IN  (r.pc # "none" /\ r.clock_success /\ r.discard_rc = NGX_OK)
                    => /\ r.body_read_size = r.supplied
                       /\ r.bps = 0

\* C24: in the asynchronous variant a request that waits for its body has
\* its context (resolved length, chain, open device handle) stored and the
\* cleanup registered, and a request aborted while waiting has its handle
\* closed when its pool is destroyed.
C24_ContextAndCleanupBeforeSuspend ==
    variant = "async" =>
        \A i \in DOMAIN req :
            LET r == req[i]
            IN  /\ r.pc = "awaiting"
                    => /\ r.ctx
                       /\ r.cleanup
                       /\ r.ctx_length = conf[r.scope]
                       /\ Len(r.chain) = 1
                       /\ BufLen(r.chain[1]) = conf[r.scope]
                       /\ r.fd = "open"
                /\ (r.pc = "destroyed" /\ r.how = "aborted")
                    => r.fd = "closed" /\ r.closes = 1

C24_Witness ==
    \E i \in DOMAIN req :
        /\ variant = "async"
        /\ req[i].pc = "destroyed"
        /\ req[i].how = "aborted"
        /\ req[i].ctx
        /\ req[i].closes = 1
        /\ req[i].fd = "closed"

-----------------------------------------------------------------------------
(* Ownership and sharing.                                                  *)

\* C25: with two requests in flight in the zero-source variants, each
\* request's Content-Length and chain use the resolved length of its own
\* scope and the descriptor it opened itself, no two requests hold the same
\* open descriptor, and a handle a request still holds open has not been
\* closed by the cleanup of another.
C25_RequestsOwnTheirState ==
    \A i \in DOMAIN req :
        LET r == req[i]
        IN  r.pc # "none" =>
                /\ \A k \in 1 .. Len(r.headers) :
                       r.headers[k].status = NGX_HTTP_OK
                           => r.headers[k].content_length_n = conf[r.scope]
                /\ r.emitted
                       => /\ BufLen(r.out[1]) = conf[r.scope]
                          /\ r.out[1].fd = r.dev_zero_fd
                /\ r.fd = "open" => r.dev_zero_fd \in open_fds
                /\ \A j \in DOMAIN req \ {i} :
                       (r.fd = "open" /\ req[j].pc # "none"
                        /\ req[j].fd = "open")
                           => req[j].dev_zero_fd # r.dev_zero_fd

C25_Witness ==
    /\ variant = "async"
    /\ req[1].pc = "awaiting"
    /\ req[2].pc = "destroyed"
    /\ req[2].emitted
    /\ conf[req[1].scope] # conf[req[2].scope]
    /\ BufLen(req[2].out[1]) = conf[req[2].scope]
    /\ req[1].dev_zero_fd # req[2].dev_zero_fd
    /\ req[1].dev_zero_fd \in open_fds
    /\ req[2].dev_zero_fd \notin open_fds

\* C29: under Pattern-Fill, once a request has been served every byte of
\* the shared buffer is 'x', and every descriptor is the window
\* [0, 4096) of that buffer itself.
C29_PatternBufferIntact ==
    variant = "pattern" =>
        \A i \in DOMAIN req :
            LET r == req[i]
            IN  r.pc # "none" =>
                    /\ response_contents = RESPONSE_MULTIPLE
                    /\ \A k \in 1 .. Len(r.chain) :
                           /\ r.chain[k].src = "response_contents"
                           /\ r.chain[k].memory
                           /\ r.chain[k].pos = 0
                           /\ r.chain[k].last = RESPONSE_MULTIPLE
                           /\ r.chain[k].fill = "x"
                    /\ r.emitted => r.out = r.chain

C29_Witness ==
    \E i \in DOMAIN req :
        /\ variant = "pattern"
        /\ req[i].pc = "destroyed"
        /\ req[i].emitted
        /\ Len(req[i].out) = 3
        /\ req[i].out[3].fill = "x"
        /\ response_contents = RESPONSE_MULTIPLE

\* C30: in every variant, a step that handles a request (the handler, the
\* continuation, the end of the request) leaves every scope's length as it
\* was.
C30_HandlersOnlyReadConfiguration ==
    [][(\E i \in DOMAIN req : req'[i] # req[i])
          => (conf' = conf /\ raw' = raw)]_vars

C30_Witness ==
    \E i \in DOMAIN req :
        /\ req[i].pc = "destroyed"
        /\ req[i].how = "finalized"
        /\ req[i].emitted
        /\ conf[req[i].scope] = 10000
        /\ raw[req[i].scope] = 10000

-----------------------------------------------------------------------------
(* Stages.                                                                 *)

\* The positions at which a request passed a stage.
At(r, name) == {k \in 1 .. Len(r.stages) : r.stages[k] = name}

\* The request passed stage a, and passed it before every passage of b.
Earlier(r, a, b) ==
    /\ At(r, a) # {}
    /\ \A j \in At(r, a), k \in At(r, b) : j < k

StageNames ==
    {"ConfigResolved", "ChainAssembled", "AwaitingBody", "BodyDrained",
     "HeadersSent", "BodySent"}

\* What every variant does: no stage twice, the configuration (when there
\* is one) first, the body chain only after headers the primitive accepted.
StagesInOrder(r) ==
    /\ \A n \in StageNames : Cardinality(At(r, n)) <= 1
    /\ (r.stages # <<>> /\ r.conf_ok) => r.stages[1] = "ConfigResolved"
    /\ At(r, "BodySent") # {}
           => /\ Earlier(r, "HeadersSent", "BodySent")
              /\ r.send_header_rc = NGX_OK
              /\ r.stages[Len(r.stages)] = "BodySent"
    /\ r.emitted <=> At(r, "BodySent") # {}
    /\ Len(r.headers) = Cardinality(At(r, "HeadersSent"))

\* C26: in every variant the stages of a request come in the order
\* ConfigResolved, ChainAssembled, (AwaitingBody, BodyDrained,) HeadersSent,
\* BodySent: the body is drained and the headers are sent only after the
\* chain is assembled, the chain is handed over only after headers sent
\* successfully, and no stage is entered twice.
C26_StageOrder ==
    \A i \in DOMAIN req :
        LET r == req[i]
        IN  r.pc # "none" =>
                /\ StagesInOrder(r)
                /\ At(r, "BodyDrained") # {}
                       => Earlier(r, "ChainAssembled", "BodyDrained")
                /\ At(r, "HeadersSent") # {}
                       => Earlier(r, "ChainAssembled", "HeadersSent")

\* C26, amended: no stage twice, configuration first, the chain handed over
\* only after headers sent successfully, headers with status 200 only after
\* the chain is assembled; the asynchronous variant drains the body after
\* it assembled the chain, the other three drain it before.
C26_StageOrderAmended ==
    \A i \in DOMAIN req :
        LET r == req[i]
        IN  r.pc # "none" =>
                /\ StagesInOrder(r)
                /\ (At(r, "HeadersSent") # {} /\ Sent(r).status = NGX_HTTP_OK)
                       => Earlier(r, "ChainAssembled", "HeadersSent")
                /\ (variant = "async" /\ At(r, "BodyDrained") # {})
                       => /\ Earlier(r, "ChainAssembled", "AwaitingBody")
                          /\ Earlier(r, "AwaitingBody", "BodyDrained")
                          /\ Earlier(r, "BodyDrained", "HeadersSent")
                /\ (variant # "async" /\ At(r, "ChainAssembled") # {})
                       => Earlier(r, "BodyDrained", "ChainAssembled")

C26_Witness ==
    \E i \in DOMAIN req :
        /\ variant = "async"
        /\ req[i].pc = "finalized"
        /\ req[i].stages = <<"ConfigResolved", "ChainAssembled",
                             "AwaitingBody", "BodyDrained", "HeadersSent",
                             "BodySent">>

-----------------------------------------------------------------------------
(* Termination.                                                            *)

\* The handling of the request is over.
Ended(r) == Handled(r) \/ r.pc = "crashed"

\* The terminal outcome of a request whose handling is over.
Outcome(r) == IF r.emitted THEN "BodySent" ELSE "Errored"

\* C27: if the host eventually delivers the body of a waiting request or
\* aborts it, a request that waits for its body eventually ends; a request
\* that has ended stays ended with the outcome it had; and the continuation
\* finalizes the request exactly once.
C27_EveryRequestEnds ==
    /\ \A i \in {1} : (req[i].pc = "awaiting") ~> Ended(req[i])
    /\ [][\A i \in DOMAIN req :
              Ended(req[i]) => /\ Ended(req'[i])
                               /\ Outcome(req'[i]) = Outcome(req[i])
                               /\ req'[i].rc = req[i].rc]_vars
    /\ [](\A i \in DOMAIN req :
              req[i].pc # "none" =>
                  /\ req[i].finalized <= 1
                  /\ (req[i].pc = "finalized" \/ req[i].how = "finalized")
                         <=> req[i].finalized = 1)

C27_Witness ==
    \E i \in DOMAIN req :
        /\ variant = "async"
        /\ req[i].pc = "destroyed"
        /\ req[i].how = "finalized"
        /\ req[i].finalized = 1
        /\ ~req[i].emitted
        /\ req[i].header_only

\* C28: under Pattern-Fill a child configured with C bytes, below a parent
\* location configured with P > 0 bytes that no enclosing block gives a
\* length to, resolves to ceil(min(P, C) / 4096) buffers, and its successful
\* responses carry that many times 4096 bytes.
C28_PatternSmallerWinsInBytes ==
    variant = "pattern" =>
        \A s \in Locations :
            LET P == raw[s - 1]
                C == raw[s]
                m == IF P < C THEN P ELSE C
                n == CeilDiv(m, RESPONSE_MULTIPLE)
            IN  (s - 1 \in Locations /\ merged[s] /\ handler[s - 1]
                 /\ handler[s] /\ P > 0
                 /\ \A t \in Scopes : t < s - 1 => ~handler[t])
                    => /\ conf[s] = n
                       /\ \A i \in DOMAIN req :
                              (req[i].pc # "none" /\ req[i].scope = s
                               /\ Len(req[i].headers) > 0
                               /\ Sent(req[i]).status = NGX_HTTP_OK)
                                  => Sent(req[i]).content_length_n
                                         = n * RESPONSE_MULTIPLE
                       /\ \A i \in DOMAIN req :
                              (req[i].pc # "none" /\ req[i].scope = s
                               /\ req[i].emitted /\ ~req[i].alloc_failed)
                                  => ChainBytes(req[i].out)
                                         = n * RESPONSE_MULTIPLE

C28_Witness ==
    \E i \in DOMAIN req :
        /\ variant = "pattern"
        /\ req[i].pc = "returned"
        /\ req[i].emitted
        /\ req[i].scope = 3
        /\ raw[2] = RESPONSE_MULTIPLE
        /\ raw[3] = 10000
        /\ Len(req[i].out) = 1
        /\ Sent(req[i]).content_length_n = RESPONSE_MULTIPLE

-----------------------------------------------------------------------------
(* Header-only requests.                                                   *)

\* The request's status-200 headers were sent with success and the header
\* filters made the request header-only.
HeaderOnlySent(r) ==
    /\ r.pc # "none"
    /\ Handled(r)
    /\ Len(r.headers) > 0
    /\ Sent(r).status = NGX_HTTP_OK
    /\ r.send_header_rc = NGX_OK
    /\ r.header_only

\* C31: a header-only request whose headers were sent with success ends
\* with the result of the send-headers primitive, not with status 500.
C31_HeaderOnlyEndsWithoutError ==
    \A i \in DOMAIN req :
        HeaderOnlySent(req[i])
            => /\ req[i].rc = req[i].send_header_rc
               /\ req[i].rc # NGX_HTTP_INTERNAL_SERVER_ERROR

\* C32: the chain of a header-only request is never handed to
\* ngx_http_output_filter.
C32_HeaderOnlySendsNoBody ==
    \A i \in DOMAIN req :
        HeaderOnlySent(req[i]) => ~req[i].emitted

-----------------------------------------------------------------------------
(* The device handle of the asynchronous variant.                          *)

\* The chain of the request has been handed to the transport and the
\* request's pool is still there.
ChainInUse(r) == r.pc # "none" /\ r.emitted /\ r.pc # "destroyed"

\* C33: in the asynchronous variant the descriptor the chain references is
\* open for as long as the chain is in the hands of the transport; the
\* handler and the continuation close nothing, and a request's descriptor
\* is closed only by the step that destroys the pool of that request, after
\* the request has ended.
C33_HandleOpenDuringEmission ==
    /\ [](variant = "async" =>
            \A i \in DOMAIN req :
                ChainInUse(req[i])
                    => /\ req[i].out[1].fd \in open_fds
                       /\ req[i].out[1].fd = req[i].dev_zero_fd
                       /\ req[i].fd = "open"
                       /\ req[i].closes = 0)
    /\ [][variant = "async" =>
            \A i \in DOMAIN req :
                (req[i].pc # "none"
                 /\ req[i].fd = "open"
                 /\ req[i].dev_zero_fd \in open_fds
                 /\ req[i].dev_zero_fd \notin open_fds')
                    => /\ req[i].pc \in {"returned", "finalized", "aborted"}
                       /\ req'[i].pc = "destroyed"
                       /\ req'[i].closes = 1]_vars

C33_Witness ==
    /\ variant = "async"
    /\ req[1].pc = "finalized"
    /\ req[1].how = ""
    /\ req[1].emitted
    /\ req[1].out[1].fd \in open_fds
    /\ req[2].pc = "destroyed"
    /\ req[2].emitted
    /\ req[2].closes = 1
    /\ req[2].dev_zero_fd \notin open_fds

-----------------------------------------------------------------------------
(* Clock failures of the instrumented variant.                             *)

\* C34: in the instrumented variant the clock difference is taken only when
\* both readings succeeded; when a reading failed there is no report, the
\* status-200 headers announce exactly the resolved length, the chain has no
\* report prefix and carries exactly the resolved length, and a request with
\* no other failure ends with status 200 and its body handed over.
C34_ClockFailureMeansNoReport ==
    variant = "instr" =>
        \A i \in DOMAIN req :
            LET r == req[i]
            IN  (r.pc # "none" /\ Handled(r) /\ r.conf_ok) =>
                    /\ r.clocks # <<>> => r.clock_success
                    /\ ~r.clock_success =>
                          /\ r.clocks = <<>>
                          /\ r.body_read_duration_ts = Timespec(0, 0)
                          /\ r.response_json_len = 0
                          /\ (Len(r.headers) > 0
                              /\ Sent(r).status = NGX_HTTP_OK)
                                 => Sent(r).content_length_n = conf[r.scope]
                          /\ r.emitted
                                 => /\ Len(r.out) = 1
                                    /\ r.out[1].prefix = 0
                                    /\ ChainBytes(r.out) = conf[r.scope]
                          /\ (r.discard_rc = NGX_OK /\ ~r.alloc_failed
                              /\ r.send_header_rc = NGX_OK)
                                 => /\ r.emitted
                                    /\ Sent(r).status = NGX_HTTP_OK

C34_Witness ==
    \E i \in DOMAIN req :
        /\ variant = "instr"
        /\ req[i].pc = "returned"
        /\ req[i].conf_ok
        /\ ~req[i].clock_success
        /\ req[i].crit > 0
        /\ req[i].emitted
        /\ req[i].rc = NGX_OK
        /\ Sent(req[i]).status = NGX_HTTP_OK
        /\ conf[req[i].scope] = 10000
        /\ Sent(req[i]).content_length_n = 10000
        /\ ChainBytes(req[i].out) = 10000

====
